---- MODULE Spec2Model ----
(***************************************************************************)
(* Viewport / scroll state machine of the hex viewer (src/src/main.rs).   *)
(*                                                                         *)
(* One action per arm of the event loop of main.  An action covers the     *)
(* whole loop iteration: the dispatched operation (move_cursor,            *)
(* goto_start, goto_end, the inline '0' / '$' arms, Resize) and the        *)
(* draw_screen call that follows when requires_redraw is true.             *)
(***************************************************************************)
EXTENDS Integers, Naturals, Sequences, FiniteSets, TLC

\* ---------------------------------------------------------------- bounds
\* Largest terminal height the size query reports in the model.
MaxRows == 4
\* Largest number of 16-byte lines in the content buffer.
MaxLines == 5
\* Longest byte buffer handed to draw_line (two full lines and a short one).
MaxBlobLen == 34
\* Number of byte patterns the buffers are drawn from, minus one.
MaxShift == 2
\* Largest line index handed to draw_line.
MaxIndex == 3
\* Largest terminal width handed to draw_line (a full line has 75 characters).
MaxCols == 78

\* ------------------------------------------------------ program constants
\* const LINE_LENGTH: usize = 16;
LINE_LENGTH == 16
\* the literal 10 of move_cursor / goto_start / goto_end / the '0' arm
LEFT_MARGIN == 10
\* number of values of a u16 (the type of cursor rows and columns)
U16 == 65536

\* 10 + LINE_LENGTH as u16 * 3
RightBound == LEFT_MARGIN + LINE_LENGTH * 3

VARIABLES
    total_lines,      \* main: ceil(content.len() / LINE_LENGTH), fixed per run
    build,            \* "debug": integer overflow panics; "release": it wraps
    faulty,           \* TRUE iff the terminal's queries may fail (io::Error)
    rows,             \* terminal height, what window_size()?.rows returns
    curos_pos,        \* terminal cursor <<column, row>>, what cursor::position() returns
    start,            \* main: let mut start, first buffer line shown
    requires_redraw,  \* TRUE iff the arm of the last event read returned true
    drawn,            \* how the draw_screen call of the last iteration ended, or "none"
    failed,           \* which query of the last iteration returned Err, or "none"
    painted,          \* <<start, rows>> used by the last completed draw_screen
    screen,           \* what the last completed draw_screen wrote on each row
    lastEvent,        \* the event read by the last loop iteration
    gseq,             \* progress of the last events through g, G, g
    pc,               \* "run" (blocked in read()), "quit", "panic", "hang", "error"
    blob,             \* draw_line: blob, the bytes of the file
    index,            \* draw_line: pos, the line index
    cols,             \* draw_line: cols, the output width
    reads,            \* draw_line: the indices of blob its iterators yielded
    line,             \* draw_line: the local `line` built by format!
    printed,          \* draw_line: the characters it printed to stdout
    line_pc           \* draw_line: "idle", "call" (entered), "done" (returned)

fmtvars == <<blob, index, cols, reads, line, printed, line_pc>>

vars == <<total_lines, build, faulty, rows, curos_pos, start, requires_redraw,
          drawn, failed, painted, screen, lastEvent, gseq, pc, fmtvars>>

RowsSet == 0..MaxRows
LinesSet == 0..MaxLines

Events == {"none", "h", "j", "k", "l", "0", "$", "g", "G", "q", "ScrollUp",
           "ScrollDown", "Resize", "KeyOther", "MouseOther", "EventOther"}

\* The types of the state: rows and the cursor are u16, start and
\* total_lines are usize.
TypeOK ==
    /\ total_lines \in LinesSet
    /\ build \in {"debug", "release"}
    /\ faulty \in BOOLEAN
    /\ rows \in RowsSet
    /\ curos_pos \in (0..(U16 - 1)) \X (0..(U16 - 1))
    /\ start \in Nat
    /\ requires_redraw \in BOOLEAN
    /\ drawn \in {"none", "ok", "panic", "hang", "error"}
    /\ failed \in {"none", "query", "draw"}
    /\ painted \in Nat \X RowsSet
    /\ DOMAIN screen = 0..(painted[2] - 1)
    /\ lastEvent \in Events
    /\ gseq \in 0..3
    /\ pc \in {"run", "quit", "panic", "hang", "error"}
    /\ blob \in Seq(0..255)
    /\ index \in Nat
    /\ cols \in 0..(U16 - 1)
    /\ reads \subseteq Nat
    /\ line_pc \in {"idle", "call", "done"}

Min(a, b) == IF a < b THEN a ELSE b
Max(a, b) == IF a > b THEN a ELSE b

\* ------------------------------------------------------------- terminal
\* The terminal confines the cursor to its screen: a MoveTo below the last
\* row leaves the cursor on the last row, and a resize keeps it on screen.
TermRow(r, h) == Min(r, Max(h - 1, 0))

\* stdout().execute(MoveTo(c, r))
MoveTo(c, r) == <<c, TermRow(r, rows)>>

\* How the terminal queries of one loop iteration end: "ok", "query_err"
\* (the first cursor::position()? / window_size()? of the dispatched arm
\* returns Err) or "draw_err" (the window_size()? of draw_screen returns Err).
Outcomes == IF faulty THEN {"ok", "query_err", "draw_err"} ELSE {"ok"}

\* ------------------------------------------------- unsigned arithmetic
\* a - b on an unsigned type underflows when b > a: a debug build panics
\* there, a release build wraps around.
Underflows(a, b) == b > a
Panics(a, b) == build = "debug" /\ Underflows(a, b)

\* The operation of the arm does not return: it panicked (p = "panic") or
\* its `?` propagated an Err out of main (p = "error").  Nothing was
\* assigned, moved or painted.
Abort_KeepsRunning(p) ==
    /\ pc' = "run"
    /\ failed' = IF p = "error" THEN "query" ELSE "none"
    /\ requires_redraw' = FALSE
    /\ drawn' = "none"
    /\ UNCHANGED <<curos_pos, start, painted, screen, fmtvars>>
Abort(p) ==
    /\ pc' = p
    /\ failed' = IF p = "error" THEN "query" ELSE "none"
    /\ requires_redraw' = FALSE
    /\ drawn' = "none"
    /\ UNCHANGED <<curos_pos, start, painted, screen, fmtvars>>

\* ---------------------------------------------------------- draw_screen
\* draw_screen: for i in 0..(rows as usize - 1) ... MoveTo(0, rows - 1).
\* rows = 0: rows - 1 underflows; a debug build panics, a release build
\* iterates over 0..usize::MAX and does not come back.
DrawScreenPc(h) ==
    IF ~Underflows(h, 1) THEN "run"
    ELSE IF build = "debug" THEN "panic" ELSE "hang"

\* for i in 0..(rows - 1) { MoveTo(0, i); draw_line(content, i + start, ..) }
\* then MoveTo(0, rows - 1), Print(message): what each row of the screen
\* holds afterwards, a buffer line or the status message.
DrawScreen(s, h) ==
    [r \in 0..(h - 1) |-> IF r < h - 1 THEN <<"line", r + s>>
                          ELSE <<"status", 0>>]

\* SavePosition ... MoveTo(0, i) ... MoveTo(0, rows - 1), Print(message),
\* RestorePosition: where the cursor is when draw_screen returns.
DrawScreenCursor(pos, h) ==
    LET saved == pos
        atStatus == <<0, TermRow(h - 1, h)>>
        restored == saved
    IN restored

\* The "if requires_redraw { draw_screen(&content, start)?; }" of the loop,
\* for the start value s and the cursor pos left by the operation, its
\* redraw signal rd, the terminal height h and the outcome o of the queries.
Finish_AlwaysDraws(s, rd, pos, h, o) ==
    /\ requires_redraw' = rd
    /\ UNCHANGED fmtvars
    /\ failed' = "none"
    /\ pc' = "run"
    /\ drawn' = "ok"
    /\ curos_pos' = DrawScreenCursor(pos, h)
    /\ painted' = <<s, h>>
    /\ screen' = DrawScreen(s, h)
Finish(s, rd, pos, h, o) ==
    /\ requires_redraw' = rd
    /\ UNCHANGED fmtvars
    /\ failed' = IF rd /\ o = "draw_err" THEN "draw" ELSE "none"
    /\ IF ~rd
       THEN /\ pc' = "run"
            /\ drawn' = "none"
            /\ curos_pos' = pos
            /\ UNCHANGED <<painted, screen>>
       ELSE IF o = "draw_err"
       THEN /\ pc' = "error"
            /\ drawn' = "error"
            /\ curos_pos' = pos
            /\ UNCHANGED <<painted, screen>>
       ELSE IF DrawScreenPc(h) = "run"
       THEN /\ pc' = "run"
            /\ drawn' = "ok"
            /\ curos_pos' = DrawScreenCursor(pos, h)
            /\ painted' = <<s, h>>
            /\ screen' = DrawScreen(s, h)
       ELSE /\ pc' = DrawScreenPc(h)
            /\ drawn' = DrawScreenPc(h)
            /\ curos_pos' = pos
            /\ UNCHANGED <<painted, screen>>

\* ---------------------------------------------------------- move_cursor
\* Direction::Up
UpRow(pos) == IF pos[2] > 0 THEN pos[2] - 1 ELSE pos[2]
UpStart_IgnoresCursor(pos, s) == IF s > 0 THEN s - 1 ELSE s
UpStart(pos, s) == IF pos[2] > 0 THEN s ELSE IF s > 0 THEN s - 1 ELSE s
UpRedraw_Never(pos, s) == FALSE
UpRedraw(pos, s) == ~(pos[2] > 0) /\ s > 0

\* Direction::Down: let max_start = if total_lines <= rows { 0 } else { total_lines - rows }
DownMaxStart_NoRows(tl, h) == tl
DownMaxStart(tl, h) == IF tl <= h THEN 0 ELSE tl - h
\* (rows - 2) as u16, the usize difference wrapped and truncated to 16 bits
DownRowBound(h) == (h - 2) % U16
DownRow(pos, h) == IF pos[2] < DownRowBound(h) THEN pos[2] + 1 ELSE pos[2]
DownStart(pos, s, tl, h) ==
    IF pos[2] < DownRowBound(h) THEN s
    ELSE IF s < DownMaxStart(tl, h) THEN s + 1 ELSE s
DownRedraw_Never(pos, s, tl, h) == FALSE
DownRedraw(pos, s, tl, h) ==
    ~(pos[2] < DownRowBound(h)) /\ s < DownMaxStart(tl, h)

\* Direction::Left / Direction::Right
LeftCol(pos) == IF pos[1] > LEFT_MARGIN THEN pos[1] - 1 ELSE pos[1]
RightCol_Unbounded(pos) == pos[1] + 1
RightCol(pos) == IF pos[1] < RightBound THEN pos[1] + 1 ELSE pos[1]

Direction == {"Up", "Down", "Left", "Right"}

\* move_cursor(&mut start, total_lines, direction), then the loop's redraw
MoveCursor(direction, ev) ==
    /\ pc = "run"
    /\ lastEvent' = ev
    /\ gseq' = 0
    /\ UNCHANGED <<total_lines, build, faulty, rows>>
    /\ \E o \in Outcomes :
        IF o = "query_err"
        THEN Abort("error")
        ELSE IF direction = "Down" /\ Panics(rows, 2)
        THEN Abort("panic")
        ELSE LET col == CASE direction = "Left" -> LeftCol(curos_pos)
                          [] direction = "Right" -> RightCol(curos_pos)
                          [] OTHER -> curos_pos[1]
                 row == CASE direction = "Up" -> UpRow(curos_pos)
                          [] direction = "Down" -> DownRow(curos_pos, rows)
                          [] OTHER -> curos_pos[2]
                 s   == CASE direction = "Up" -> UpStart(curos_pos, start)
                          [] direction = "Down" ->
                                DownStart(curos_pos, start, total_lines, rows)
                          [] OTHER -> start
                 rd  == CASE direction = "Up" -> UpRedraw(curos_pos, start)
                          [] direction = "Down" ->
                                DownRedraw(curos_pos, start, total_lines, rows)
                          [] OTHER -> FALSE
             IN /\ start' = s
                /\ Finish(s, rd, MoveTo(col, row), rows, o)

KeyH == MoveCursor("Left", "h")
KeyJ == MoveCursor("Down", "j")
KeyK == MoveCursor("Up", "k")
KeyL == MoveCursor("Right", "l")
ScrollUp == MoveCursor("Up", "ScrollUp")
ScrollDown == MoveCursor("Down", "ScrollDown")

\* ------------------------------------------------------------ '0' and '$'
\* Char('0') => { let pos = cursor::position()?; MoveTo(10, pos.1); true }
Key0Redraw == TRUE
Key0 ==
    /\ pc = "run"
    /\ lastEvent' = "0"
    /\ gseq' = 0
    /\ UNCHANGED <<total_lines, build, faulty, rows>>
    /\ \E o \in Outcomes :
        IF o = "query_err"
        THEN Abort("error")
        ELSE /\ start' = start
             /\ Finish(start, Key0Redraw, MoveTo(LEFT_MARGIN, curos_pos[2]), rows, o)

\* Char('$') => { let pos = cursor::position()?; MoveTo(10 + 16 * 3, pos.1); false }
KeyDollarRedraw == FALSE
KeyDollar ==
    /\ pc = "run"
    /\ lastEvent' = "$"
    /\ gseq' = 0
    /\ UNCHANGED <<total_lines, build, faulty, rows>>
    /\ \E o \in Outcomes :
        IF o = "query_err"
        THEN Abort("error")
        ELSE /\ start' = start
             /\ Finish(start, KeyDollarRedraw, MoveTo(RightBound, curos_pos[2]), rows, o)

\* ------------------------------------------------------------ goto_start
\* goto_start makes no query of its own.
GotoStartRedraw_Always(s) == TRUE
GotoStartRedraw(s) == s > 0
GotoStartStart(s) == IF s > 0 THEN 0 ELSE s
GotoStart ==
    /\ pc = "run"
    /\ lastEvent' = "g"
    /\ gseq' = IF gseq = 2 THEN 3 ELSE 1
    /\ start' = GotoStartStart(start)
    /\ \E o \in Outcomes :
        Finish(GotoStartStart(start), GotoStartRedraw(start),
               MoveTo(LEFT_MARGIN, 0), rows, o)
    /\ UNCHANGED <<total_lines, build, faulty, rows>>

\* -------------------------------------------------------------- goto_end
\* let max_start = if total_lines <= rows { 0 } else { total_lines - (rows - 1) }
\* rows - 1 is evaluated only when total_lines > rows.  With rows = 0 a
\* release build wraps twice (rows - 1 = 2^64 - 1, then total_lines - that),
\* which is total_lines + 1 modulo 2^64, the value of the expression below.
GotoEndMaxStart(tl, h) == IF tl <= h THEN 0 ELSE tl - (h - 1)
\* rows as u16 - 2, wrapped to 16 bits
GotoEndRow_StatusRow(h) == (h - 1) % U16
GotoEndRow(h) == (h - 2) % U16
GotoEndPanics(tl, h) == (tl > h /\ Panics(h, 1)) \/ Panics(h, 2)
GotoEndStart(s, tl, h) == IF s < GotoEndMaxStart(tl, h) THEN GotoEndMaxStart(tl, h) ELSE s
GotoEndRedraw(s, tl, h) == s < GotoEndMaxStart(tl, h)

GotoEnd ==
    /\ pc = "run"
    /\ lastEvent' = "G"
    /\ gseq' = IF gseq = 1 THEN 2 ELSE 0
    /\ UNCHANGED <<total_lines, build, faulty, rows>>
    /\ \E o \in Outcomes :
        IF o = "query_err"
        THEN Abort("error")
        ELSE IF GotoEndPanics(total_lines, rows)
        THEN Abort("panic")
        ELSE /\ start' = GotoEndStart(start, total_lines, rows)
             /\ Finish(GotoEndStart(start, total_lines, rows),
                       GotoEndRedraw(start, total_lines, rows),
                       MoveTo(LEFT_MARGIN, GotoEndRow(rows)), rows, o)

\* ---------------------------------------------------------------- Resize
\* Event::Resize(_, _) => true.  The event reports that the terminal has a
\* new size; the terminal keeps its cursor on the screen.
ResizeRedraw_Never == FALSE
ResizeRedraw == TRUE
Resize ==
    /\ pc = "run"
    /\ lastEvent' = "Resize"
    /\ gseq' = 0
    /\ \E h \in RowsSet \ {rows}, o \in Outcomes :
          /\ rows' = h
          /\ Finish(start, ResizeRedraw,
                    <<curos_pos[1], TermRow(curos_pos[2], h)>>, h, o)
    /\ UNCHANGED <<total_lines, build, faulty, start>>

\* ------------------------------------------------------- ignored events
\* "_ => false" of the key match, of the mouse match and of the event match
Ignored(ev) ==
    /\ pc = "run"
    /\ lastEvent' = ev
    /\ gseq' = 0
    /\ Finish(start, FALSE, curos_pos, rows, "ok")
    /\ UNCHANGED <<total_lines, build, faulty, rows, start>>

KeyOther == Ignored("KeyOther")
MouseOther == Ignored("MouseOther")
EventOther == Ignored("EventOther")

\* Char('q') => break
KeyQ ==
    /\ pc = "run"
    /\ pc' = "quit"
    /\ lastEvent' = "q"
    /\ gseq' = 0
    /\ UNCHANGED <<total_lines, build, faulty, rows, curos_pos, start,
                   requires_redraw, drawn, failed, painted, screen, fmtvars>>

\* ------------------------------------------------------------------ main
\* State when the loop first blocks in read(): start = 0, the initial
\* draw_screen has completed (so rows >= 1) and the cursor is at (10, 0).
InitMain ==
    /\ total_lines \in LinesSet
    /\ build \in {"debug", "release"}
    /\ rows \in RowsSet \ {0}
    /\ curos_pos = <<LEFT_MARGIN, 0>>
    /\ start = 0
    /\ requires_redraw = FALSE
    /\ drawn = "none"
    /\ failed = "none"
    /\ painted = <<0, rows>>
    /\ screen = DrawScreen(0, rows)
    /\ lastEvent = "none"
    /\ gseq = 0
    /\ pc = "run"

\* No draw_line call is followed.
InitIdle ==
    /\ blob = <<>>
    /\ index = 0
    /\ cols = 0
    /\ reads = {}
    /\ line = <<>>
    /\ printed = <<>>
    /\ line_pc = "idle"

\* The terminal answers every query.
Init == InitMain /\ InitIdle /\ faulty = FALSE

\* The terminal's queries may return Err.
InitIO == InitMain /\ InitIdle /\ faulty = TRUE

Next ==
    \/ KeyH
    \/ KeyJ
    \/ KeyK
    \/ KeyL
    \/ Key0
    \/ KeyDollar
    \/ GotoStart
    \/ GotoEnd
    \/ ScrollUp
    \/ ScrollDown
    \/ Resize
    \/ KeyOther
    \/ MouseOther
    \/ EventOther
    \/ KeyQ

\* Every event except Resize: the terminal keeps its size.
NextFixed ==
    \/ KeyH
    \/ KeyJ
    \/ KeyK
    \/ KeyL
    \/ Key0
    \/ KeyDollar
    \/ GotoStart
    \/ GotoEnd
    \/ ScrollUp
    \/ ScrollDown
    \/ KeyOther
    \/ MouseOther
    \/ EventOther
    \/ KeyQ

Spec == Init /\ [][Next]_vars

\* The program on a terminal that is never resized.
SpecFixed == Init /\ [][NextFixed]_vars

\* The program on a terminal whose queries may fail.
SpecIO == InitIO /\ [][Next]_vars

\* ------------------------------------------------------------ draw_line
\* Text is a sequence of one-character strings.
HexDigits == <<"0", "1", "2", "3", "4", "5", "6", "7",
               "8", "9", "a", "b", "c", "d", "e", "f">>
DecDigits == <<"0", "1", "2", "3", "4", "5", "6", "7", "8", "9">>
UpperCase == <<"A", "B", "C", "D", "E", "F", "G", "H", "I", "J", "K", "L", "M",
               "N", "O", "P", "Q", "R", "S", "T", "U", "V", "W", "X", "Y", "Z">>
LowerCase == <<"a", "b", "c", "d", "e", "f", "g", "h", "i", "j", "k", "l", "m",
               "n", "o", "p", "q", "r", "s", "t", "u", "v", "w", "x", "y", "z">>

Spaces(n) == [i \in 1..n |-> " "]
Zeros(n) == [i \in 1..n |-> "0"]

\* format!("{:02x}", c) for a u8
Hex02(c) == <<HexDigits[(c \div 16) + 1], HexDigits[(c % 16) + 1]>>

\* {:x}: lowercase hexadecimal without padding
RECURSIVE HexStr(_)
HexStr(n) ==
    IF n < 16 THEN <<HexDigits[n + 1]>>
    ELSE HexStr(n \div 16) \o <<HexDigits[(n % 16) + 1]>>

\* {line_num:08x}: zero-padded on the left to at least 8 characters
PadLeftZero(str, w) ==
    IF Len(str) >= w THEN str ELSE Zeros(w - Len(str)) \o str

\* {bytes: <width$}: space-padded on the right to at least width characters
PadRightSpace_NoPad(str, w) == str
PadRightSpace(str, w) ==
    IF Len(str) >= w THEN str ELSE str \o Spaces(w - Len(str))

\* u8::is_ascii_alphanumeric
IsAsciiAlphanumeric(c) ==
    \/ c >= 48 /\ c <= 57
    \/ c >= 65 /\ c <= 90
    \/ c >= 97 /\ c <= 122

\* if c.is_ascii_alphanumeric() { c as char } else { '.' }
GutterChar(c) ==
    IF ~IsAsciiAlphanumeric(c) THEN "."
    ELSE IF c <= 57 THEN DecDigits[c - 47]
    ELSE IF c <= 90 THEN UpperCase[c - 64]
    ELSE LowerCase[c - 96]

\* blob.iter().skip(pos * line_length).take(line_length): the (1-based)
\* indices of the elements the iterator yields, and the elements in order.
LineReads(b, p, ll) == {i \in 1..Len(b) : i > p * ll /\ i <= p * ll + ll}
LineBytes(b, p, ll) == SubSeq(b, p * ll + 1, Min(Len(b), p * ll + ll))

\* .collect::<Vec<_>>().join(" ")
RECURSIVE Join(_, _)
Join(strs, sep) ==
    IF strs = <<>> THEN <<>>
    ELSE IF Len(strs) = 1 THEN strs[1]
    ELSE strs[1] \o sep \o Join(Tail(strs), sep)

\* let bytes = ... .map(|&c| format!("{:02x}", c)) ... .join(" ")
BytesField(b, p, ll) ==
    Join([i \in 1..Len(LineBytes(b, p, ll)) |-> Hex02(LineBytes(b, p, ll)[i])],
         <<" ">>)

\* let chars = ... .map(...).collect::<String>()
CharsField(b, p, ll) ==
    [i \in 1..Len(LineBytes(b, p, ll)) |-> GutterChar(LineBytes(b, p, ll)[i])]

\* format!("{line_num:08x}: {bytes: <width$} {chars}", width = line_length * 3)
FormatLine(b, p, ll) ==
    PadLeftZero(HexStr(p * ll), 8) \o <<":", " ">>
        \o PadRightSpace(BytesField(b, p, ll), ll * 3)
        \o <<" ">> \o CharsField(b, p, ll)

\* if len < cols { Print(line); (cols - len) x Print(" ") }
\* else { Print(line[..cols]) }
FitLine_NoTruncate(ln, w) ==
    IF Len(ln) < w THEN ln \o Spaces(w - Len(ln)) ELSE ln
FitLine(ln, w) ==
    IF Len(ln) < w THEN ln \o Spaces(w - Len(ln)) ELSE SubSeq(ln, 1, w)

\* draw_line(blob, pos, line_length, cols), called as draw_screen calls it,
\* with line_length = 16.
DrawLine ==
    /\ line_pc = "call"
    /\ line_pc' = "done"
    /\ reads' = LineReads(blob, index, LINE_LENGTH)
    /\ line' = FormatLine(blob, index, LINE_LENGTH)
    /\ printed' = FitLine(FormatLine(blob, index, LINE_LENGTH), cols)
    /\ UNCHANGED <<blob, index, cols>>
    /\ UNCHANGED <<total_lines, build, faulty, rows, curos_pos, start,
                   requires_redraw, drawn, failed, painted, screen,
                   lastEvent, gseq, pc>>

\* Bytes the buffers are made of: the ends of the alphanumeric ranges, their
\* neighbours, and the bytes of the examples (0xff, 0x00, 'a', ' ', '9').
ByteCycle == <<255, 0, 97, 32, 57, 65, 122, 10, 48, 90, 47, 58, 64, 91, 96, 123>>
Blob(n, shift) == [i \in 1..n |-> ByteCycle[((i - 1 + shift) % Len(ByteCycle)) + 1]]

\* let total_lines = (content.len() as f64 / LINE_LENGTH as f64).ceil() as usize
TotalLines(b) == (Len(b) + LINE_LENGTH - 1) \div LINE_LENGTH

\* draw_line entered with a buffer, a line index and a width; the viewer's
\* own state is that of a terminal of cols columns showing that buffer.
InitFmt ==
    /\ \E n \in 0..MaxBlobLen, sh \in 0..MaxShift : blob = Blob(n, sh)
    /\ index \in 0..MaxIndex
    /\ cols \in 0..MaxCols
    /\ reads = {}
    /\ line = <<>>
    /\ printed = <<>>
    /\ line_pc = "call"
    /\ total_lines = TotalLines(blob)
    /\ build = "release"
    /\ faulty = FALSE
    /\ rows = MaxRows
    /\ curos_pos = <<LEFT_MARGIN, 0>>
    /\ start = 0
    /\ requires_redraw = FALSE
    /\ drawn = "none"
    /\ failed = "none"
    /\ painted = <<0, rows>>
    /\ screen = DrawScreen(0, rows)
    /\ lastEvent = "none"
    /\ gseq = 0
    /\ pc = "run"

NextFmt == DrawLine

\* The line formatter on its own.
SpecFmt == InitFmt /\ [][NextFmt]_vars

\* ============================================================== claims
\* Vocabulary of the specification document.
\* visible_rows = terminal_rows - 1 (the last row holds the status line)
VisibleRows(h) == h - 1
\* max_start = max(0, total_lines - visible_rows)
MaxStart(tl, h) == Max(0, tl - VisibleRows(h))

UpEvents == {"k", "ScrollUp"}
DownEvents == {"j", "ScrollDown"}

\* C1: after any sequence of operations, Resize included, the scroll offset
\* satisfies 0 <= start <= max(0, total_lines - visible_rows) for the
\* terminal size current at that moment.
C1_StartWithinMaxStart ==
    0 <= start /\ start <= MaxStart(total_lines, rows)

\* C2: Down moves the cursor down one row without redraw when the cursor row
\* is < visible_rows - 1; otherwise it increments start by one and signals
\* redraw when start < max_start; otherwise it is a no-op.  Stated for
\* terminals of at least two rows, where visible_rows - 1 >= 0.
C2_DownAsSpecified ==
    [][(lastEvent' \in DownEvents /\ rows >= 2) =>
         IF curos_pos[2] < VisibleRows(rows) - 1
         THEN /\ curos_pos' = <<curos_pos[1], curos_pos[2] + 1>>
              /\ start' = start
              /\ ~requires_redraw'
         ELSE IF start < MaxStart(total_lines, rows)
         THEN /\ start' = start + 1
              /\ requires_redraw'
         ELSE /\ start' = start
              /\ curos_pos' = curos_pos
              /\ ~requires_redraw']_vars

\* C3: GoToEnd moves the cursor to (10, visible_rows - 1); if
\* start < max_start it sets start = max_start and signals redraw, else it
\* leaves start unchanged and signals no redraw.  Stated for terminals of
\* at least two rows, where visible_rows - 1 >= 0.
C3_GotoEndAsSpecified ==
    [][(lastEvent' = "G" /\ rows >= 2) =>
         /\ curos_pos' = <<LEFT_MARGIN, VisibleRows(rows) - 1>>
         /\ IF start < MaxStart(total_lines, rows)
            THEN start' = MaxStart(total_lines, rows) /\ requires_redraw'
            ELSE start' = start /\ ~requires_redraw']_vars

\* C4: the scroll bound of Down and the max_start of GoToEnd are the same
\* value: whenever GoToEnd has just set start to its max_start, start is
\* exactly the bound Down uses for the same total_lines and terminal rows
\* (stated for terminals of at least two rows).
C4_GotoEndLandsOnDownBound ==
    (lastEvent = "G" /\ requires_redraw /\ pc = "run" /\ rows >= 2)
        => start = DownMaxStart(total_lines, rows)

\* C5: a Down never increases start beyond max_start, and a Down issued when
\* start = max_start and the cursor is on the bottom visible row leaves
\* start and the cursor unchanged and signals no redraw.
C5_DownStopsAtMaxStart ==
    [][lastEvent' \in DownEvents =>
         /\ start' > start => start' <= MaxStart(total_lines, rows)
         /\ (start = MaxStart(total_lines, rows)
               /\ curos_pos[2] = VisibleRows(rows) - 1)
            => (start' = start /\ curos_pos' = curos_pos /\ ~requires_redraw')
      ]_vars

\* C5 witness: GoToEnd brought start to a non-zero max_start with the cursor
\* on the bottom visible row, and a Down there changed nothing.
C5_Witness ==
    /\ lastEvent \in DownEvents
    /\ pc = "run"
    /\ start > 0
    /\ start = MaxStart(total_lines, rows)
    /\ curos_pos[2] = VisibleRows(rows) - 1
    /\ ~requires_redraw

\* C6: the events g, G, g in a row end with start = 0; each g or G signals
\* redraw exactly when it changed start; a g right after a g, or a G right
\* after a G, changes neither start nor the cursor and signals no redraw.
C6_GotoRoundTrip ==
    [][/\ gseq' = 3 => start' = 0
       /\ lastEvent' \in {"g", "G"} => (requires_redraw' <=> start' # start)
       /\ (lastEvent' \in {"g", "G"} /\ lastEvent = lastEvent')
          => (start' = start /\ curos_pos' = curos_pos /\ ~requires_redraw')
      ]_vars

\* C6 witness: g, G, g completed, G had scrolled to the end and the final g
\* brought start back to 0 with a redraw.
C6_Witness ==
    gseq = 3 /\ pc = "run" /\ start = 0 /\ requires_redraw /\ painted[1] = 0

\* C7: a Resize event always yields requires_redraw = TRUE and does not
\* itself modify start.
C7_ResizeAlwaysRedraws ==
    [][lastEvent' = "Resize" => (requires_redraw' /\ start' = start)]_vars

\* C7 witness: a Resize was handled while the view was scrolled, and the
\* loop is waiting for the next event.
C7_Witness ==
    lastEvent = "Resize" /\ pc = "run" /\ start > 0 /\ requires_redraw

\* C8: the keys '0' and '$' change only the cursor column (to 10 and to 58),
\* keep the cursor row and start, and never signal a redraw.
C8_HorizontalJumpsNoRedraw ==
    [][lastEvent' \in {"0", "$"} =>
         /\ curos_pos' = <<IF lastEvent' = "0" THEN LEFT_MARGIN ELSE RightBound,
                           curos_pos[2]>>
         /\ start' = start
         /\ ~requires_redraw']_vars

\* C9: Up moves the cursor up one row (start unchanged, no redraw) when the
\* cursor row is > 0; otherwise it decrements start by one, keeps the cursor
\* on row 0 and signals redraw when start > 0; otherwise it changes nothing
\* and signals no redraw.
C9_UpAsSpecified ==
    [][lastEvent' \in UpEvents =>
         IF curos_pos[2] > 0
         THEN /\ curos_pos' = <<curos_pos[1], curos_pos[2] - 1>>
              /\ start' = start
              /\ ~requires_redraw'
         ELSE IF start > 0
         THEN /\ start' = start - 1
              /\ curos_pos' = curos_pos
              /\ requires_redraw'
         ELSE /\ start' = start
              /\ curos_pos' = curos_pos
              /\ ~requires_redraw']_vars

\* C9 witness: an Up on row 0 of a scrolled view scrolled by one line and
\* the view is still scrolled.
C9_Witness ==
    /\ lastEvent \in UpEvents
    /\ pc = "run"
    /\ curos_pos[2] = 0
    /\ start > 0
    /\ requires_redraw

\* C10: Left and Right never change start or the cursor row and never signal
\* redraw; Left moves one column left only if the column is > 10, Right one
\* column right only if the column is < 58, and at those bounds they are
\* no-ops.
C10_LeftRightAsSpecified ==
    [][lastEvent' \in {"h", "l"} =>
         /\ start' = start
         /\ curos_pos'[2] = curos_pos[2]
         /\ ~requires_redraw'
         /\ curos_pos'[1] =
              IF lastEvent' = "h"
              THEN (IF curos_pos[1] > 10 THEN curos_pos[1] - 1 ELSE curos_pos[1])
              ELSE (IF curos_pos[1] < 58 THEN curos_pos[1] + 1 ELSE curos_pos[1])
      ]_vars

\* C10 witness: a Right left the cursor on column 58 of a row below the
\* first one in a scrolled view.
C10_Witness ==
    /\ lastEvent = "l"
    /\ pc = "run"
    /\ curos_pos[1] = 58
    /\ curos_pos[2] > 0
    /\ start > 0

\* C11: a full repaint follows an event if and only if the arm dispatched
\* for it signalled requires_redraw; unrecognized key, mouse and other
\* events change neither start nor the cursor and cause no repaint; mouse
\* scroll-up / scroll-down do exactly what Up / Down (keys k / j) do.
C11_RepaintIffSignalled ==
    [][/\ (drawn' # "none") <=> requires_redraw'
       /\ lastEvent' \in {"KeyOther", "MouseOther", "EventOther"}
          => (start' = start /\ curos_pos' = curos_pos /\ drawn' = "none")
       /\ lastEvent' = "ScrollUp"
          => /\ start' = UpStart(curos_pos, start)
             /\ curos_pos' = MoveTo(curos_pos[1], UpRow(curos_pos))
             /\ requires_redraw' = UpRedraw(curos_pos, start)
       /\ lastEvent' = "ScrollDown"
          => IF Panics(rows, 2)
             THEN pc' = "panic" /\ start' = start /\ curos_pos' = curos_pos
             ELSE /\ start' = DownStart(curos_pos, start, total_lines, rows)
                  /\ curos_pos' = MoveTo(curos_pos[1], DownRow(curos_pos, rows))
                  /\ requires_redraw' =
                        DownRedraw(curos_pos, start, total_lines, rows)
      ]_vars

\* C11 witness: a mouse scroll-down scrolled the view and the repaint that
\* its redraw signal asked for has completed.
C11_Witness ==
    /\ lastEvent = "ScrollDown"
    /\ pc = "run"
    /\ requires_redraw
    /\ drawn = "ok"
    /\ start > 0

\* C12: a full repaint, for every start and terminal size, completes with
\* rows 0..visible_rows-1 showing buffer lines start..start+visible_rows-1
\* and the status message on the final row, leaves start unchanged and
\* leaves the cursor where it was immediately before the repaint.
C12_RepaintAsSpecified ==
    [][drawn' # "none" =>
         /\ drawn' = "ok"
         /\ DOMAIN screen' = 0..(rows' - 1)
         /\ \A r \in 0..(rows' - 1) :
               screen'[r] = IF r <= VisibleRows(rows') - 1
                            THEN <<"line", start' + r>>
                            ELSE <<"status", 0>>
         /\ lastEvent' \in {"0", "Resize"} => start' = start
         /\ lastEvent' = "0" => curos_pos' = <<LEFT_MARGIN, curos_pos[2]>>
      ]_vars

\* C15: when a cursor-position or terminal-size query fails in a navigation
\* operation or in a repaint, the failure is fatal: a failed operation
\* leaves start (and the cursor) unmodified, nothing is repainted for the
\* event, and no further event is read.
C15_QueryFailureIsFatal ==
    [][/\ failed' = "query"
          => /\ pc' = "error"
             /\ start' = start
             /\ curos_pos' = curos_pos
             /\ drawn' = "none"
             /\ painted' = painted
             /\ screen' = screen
       /\ failed' = "draw"
          => /\ pc' = "error"
             /\ drawn' = "error"
             /\ painted' = painted
             /\ screen' = screen
       /\ pc = "error" => UNCHANGED vars
      ]_vars

\* C15 witness: the first query of a Down failed in a scrolled view and the
\* program has stopped with the error.
C15_Witness ==
    /\ failed = "query"
    /\ pc = "error"
    /\ lastEvent \in DownEvents
    /\ start > 0

\* C16: Up, Down, GoToStart and GoToEnd signal redraw if and only if the
\* call changed start.
C16_RedrawIffStartChanged ==
    [][lastEvent' \in UpEvents \cup DownEvents \cup {"g", "G"}
         => (requires_redraw' <=> start' # start)]_vars

\* C16 witness: key j on the bottom row scrolled the view by one line and
\* signalled redraw.
C16_Witness ==
    /\ lastEvent = "j"
    /\ pc = "run"
    /\ requires_redraw
    /\ start > 1

\* C17: whenever the loop is blocked waiting for the next event, the screen
\* holds what a full repaint paints for the current start and the current
\* terminal size.
C17_ScreenIsCurrent ==
    pc = "run" =>
        /\ painted = <<start, rows>>
        /\ DOMAIN screen = 0..(rows - 1)
        /\ \A r \in 0..(rows - 1) :
              screen[r] = IF r < rows - 1 THEN <<"line", start + r>>
                          ELSE <<"status", 0>>

\* C17 witness: an Up on row 0 scrolled the view back by one line, the view
\* is still scrolled and the repaint for the new start has completed.
C17_Witness ==
    /\ pc = "run"
    /\ lastEvent \in UpEvents
    /\ requires_redraw
    /\ start > 0
    /\ screen[0] = <<"line", start>>

\* C18: on a terminal of fixed size with rows >= 2, the cursor column stays
\* within [10, 58] and the cursor row within [0, rows - 2].
C18_CursorInHexField ==
    rows >= 2 =>
        /\ curos_pos[1] >= 10 /\ curos_pos[1] <= 58
        /\ curos_pos[2] >= 0 /\ curos_pos[2] <= rows - 2

\* C18 witness: the cursor is on the last column of the hex field on the
\* bottom visible row of a terminal of at least three rows.
C18_Witness ==
    /\ rows >= 3
    /\ pc = "run"
    /\ curos_pos = <<58, rows - 2>>

\* C19: on a terminal of fixed size (at least two rows) and a non-empty
\* buffer, the cursor is always on a row that shows an existing buffer
\* line: start + cursor_row < total_lines.
C19_CursorOnContent ==
    (total_lines > 0 /\ rows >= 2) => start + curos_pos[2] < total_lines

\* C20: for every terminal height, rows = 0 and rows = 1 included, the
\* unsigned row arithmetic of Down (rows - 2), of GoToEnd (rows - 1,
\* rows as u16 - 2) and of the full repaint (rows - 1) never goes below
\* zero.
C20_NoRowUnderflow ==
    [][/\ (lastEvent' \in DownEvents /\ failed' = "none")
          => ~Underflows(rows, 2)
       /\ (lastEvent' = "G" /\ failed' = "none")
          => /\ ~Underflows(rows, 2)
             /\ total_lines > rows => ~Underflows(rows, 1)
       /\ drawn' \notin {"none", "error"} => ~Underflows(rows', 1)
      ]_vars

\* C13: for every buffer (the empty one included), every line index (also
\* beyond the end of the buffer) and every output width, draw_line prints
\* exactly output_width characters: the formatted line right-padded with
\* spaces when it is shorter, truncated when it is longer.
C13_OutputHasWidth ==
    line_pc = "done" =>
        /\ Len(printed) = cols
        /\ \A i \in 1..cols :
              printed[i] = IF i <= Len(line) THEN line[i] ELSE " "

\* C13 witness: draw_line was called on a non-empty buffer with a line index
\* beyond its end and a width larger than the formatted line, and returned.
C13_Witness ==
    /\ line_pc = "done"
    /\ blob # <<>>
    /\ index >= total_lines
    /\ cols > Len(line)
    /\ Len(printed) = cols

\* Number of bytes the buffer holds for line `index`.
BytesOnLine == Max(0, Min(LINE_LENGTH, Len(blob) - index * LINE_LENGTH))

\* C14: for a line holding k < 16 bytes (k = 0 beyond the end of the
\* buffer) the formatted line is the address index*16 as 8 zero-padded hex
\* digits, ": ", the k bytes as two lowercase hex digits each separated by
\* single spaces, spaces up to 48 characters of hex field, one space, and a
\* gutter of exactly k characters; no index >= len(buffer) is read.
C14_ShortLineLayout ==
    (line_pc = "done" /\ BytesOnLine < LINE_LENGTH) =>
        LET k == BytesOnLine
            byte(i) == blob[index * LINE_LENGTH + i + 1]
        IN /\ Len(line) = 8 + 2 + 48 + 1 + k
           /\ \A d \in 1..8 :
                 line[d] = HexDigits[(((index * 16) \div (16 ^ (8 - d))) % 16) + 1]
           /\ line[9] = ":" /\ line[10] = " "
           /\ \A i \in 0..(k - 1) :
                 /\ line[11 + 3 * i] = HexDigits[(byte(i) \div 16) + 1]
                 /\ line[12 + 3 * i] = HexDigits[(byte(i) % 16) + 1]
                 /\ line[13 + 3 * i] = " "
           /\ \A j \in (11 + 3 * k)..59 : line[j] = " "
           /\ \A i \in 0..(k - 1) :
                 line[60 + i] = IF IsAsciiAlphanumeric(byte(i))
                                THEN GutterChar(byte(i)) ELSE "."
           /\ \A i \in 0..(k - 1) : line[60 + i] # " "
           /\ \A r \in reads : r >= 1 /\ r <= Len(blob)
           /\ Cardinality(reads) = k

\* C14 witness: draw_line formatted the final line of a buffer whose last
\* line is short but not empty.
C14_Witness ==
    /\ line_pc = "done"
    /\ BytesOnLine > 0
    /\ BytesOnLine < LINE_LENGTH
    /\ index = total_lines - 1
    /\ index > 0

====
